---- MODULE Spec2Model ----
(***************************************************************************)
(* A model of package ranges (github.com/js-arias/ranges): the in-memory   *)
(* range Collection (ranges.go) and its TSV codec (ReadTSV / TSV).         *)
(*                                                                         *)
(* Strings are sequences of one-character strings, so that canon, ToLower, *)
(* Atoi, Itoa, FormatFloat and ParseFloat are computed character by        *)
(* character.  A float64 is a pair <<n, d>>: the rational n/d in lowest    *)
(* terms with d > 0, or one of the IEEE special values NaN = <<0,0>>,      *)
(* +Inf = <<1,0>>, -Inf = <<-1,0>>.  The rounding error of a float64       *)
(* division (one part in 2^53) is far below anything the codec can see     *)
(* (six decimals); x/x = 1 exactly and x/0 is a special value, as in IEEE. *)
(***************************************************************************)
EXTENDS Integers, Sequences, FiniteSets, TLC

(***************************************************************************)
(* Bounds of the model.                                                    *)
(***************************************************************************)
\* calls made on one collection by Add, Set and Delete
MaxOps == 3
\* calls made on one collection when AddPixel and SetPixels are called too
MaxAPIOps == 2
\* calls made on one collection with the two spellings of a name
MaxNameOps == 2
\* characters of a spelling of a name
MaxName == 3
\* data records read by one ReadTSV
MaxRows == 3

(***************************************************************************)
(* Characters and strings.                                                 *)
(***************************************************************************)
\* unicode.IsSpace on the characters of the model
IsSpace(ch) == ch \in {" ", "\t"}

UpperLetters ==
    <<"A", "B", "C", "D", "E", "F", "G", "H", "I", "J", "K", "L", "M",
      "N", "O", "P", "Q", "R", "S", "T", "U", "V", "W", "X", "Y", "Z">>

LowerLetters ==
    <<"a", "b", "c", "d", "e", "f", "g", "h", "i", "j", "k", "l", "m",
      "n", "o", "p", "q", "r", "s", "t", "u", "v", "w", "x", "y", "z">>

\* the case tables of the letters
LowerMap ==
    [ch \in {UpperLetters[i] : i \in 1..26} |->
        LowerLetters[CHOOSE i \in 1..26 : UpperLetters[i] = ch]]

UpperMap ==
    [ch \in {LowerLetters[i] : i \in 1..26} |->
        UpperLetters[CHOOSE i \in 1..26 : LowerLetters[i] = ch]]

\* unicode.ToLower on one character
ToLowerChar(ch) == IF ch \in DOMAIN LowerMap THEN LowerMap[ch] ELSE ch

\* unicode.ToUpper on one character
ToUpperChar(ch) == IF ch \in DOMAIN UpperMap THEN UpperMap[ch] ELSE ch

\* strings.ToLower
ToLower(s) == [i \in DOMAIN s |-> ToLowerChar(s[i])]

\* the length of the longest prefix of s without a space
RECURSIVE WordLen(_)
WordLen(s) ==
    IF s = <<>> \/ IsSpace(Head(s)) THEN 0 ELSE 1 + WordLen(Tail(s))

\* strings.Fields: the maximal runs of non-space characters of s
RECURSIVE Fields(_)
Fields(s) ==
    IF s = <<>> THEN <<>>
    ELSE IF IsSpace(Head(s)) THEN Fields(Tail(s))
    ELSE LET n == WordLen(s)
         IN  <<SubSeq(s, 1, n)>> \o Fields(SubSeq(s, n + 1, Len(s)))

\* strings.Join(words, " ")
RECURSIVE JoinSpace(_)
JoinSpace(words) ==
    IF words = <<>> THEN <<>>
    ELSE IF Len(words) = 1 THEN words[1]
    ELSE words[1] \o <<" ">> \o JoinSpace(Tail(words))

\* a canon that does not lower the case of the name
canonNoLower(name) ==
    LET j == JoinSpace(Fields(name))
    IN  IF j = <<>> THEN <<>>
        ELSE <<ToUpperChar(Head(j))>> \o Tail(j)

\* canon returns a taxon name in its canonical form (ranges.go)
canon(name) ==
    LET j == JoinSpace(Fields(name))
    IN  IF j = <<>> THEN <<>>
        ELSE LET low == ToLower(j)
             IN  <<ToUpperChar(Head(low))>> \o Tail(low)

(***************************************************************************)
(* Integers as text: strconv.Itoa / FormatInt and strconv.Atoi / ParseInt. *)
(***************************************************************************)
Digits == <<"0", "1", "2", "3", "4", "5", "6", "7", "8", "9">>

IsDigit(ch) == \E i \in 1..10 : Digits[i] = ch

DigitVal(ch) == (CHOOSE i \in 1..10 : Digits[i] = ch) - 1

RECURSIVE UItoa(_)
UItoa(n) ==
    IF n < 10 THEN <<Digits[n + 1]>>
    ELSE UItoa(n \div 10) \o <<Digits[(n % 10) + 1]>>

\* strconv.Itoa and strconv.FormatInt(_, 10)
Itoa(n) == IF n < 0 THEN <<"-">> \o UItoa(0 - n) ELSE UItoa(n)

AllDigits(s) == \A i \in DOMAIN s : IsDigit(s[i])

RECURSIVE UAtoi(_)
UAtoi(s) ==
    IF s = <<>> THEN 0
    ELSE 10 * UAtoi(SubSeq(s, 1, Len(s) - 1)) + DigitVal(s[Len(s)])

\* strconv.Atoi and strconv.ParseInt(_, 10, 64): an optional sign and
\* at least one digit; anything else is a syntax error
Atoi(s) ==
    LET signed == s # <<>> /\ Head(s) \in {"+", "-"}
        body == IF signed THEN Tail(s) ELSE s
    IN  IF body = <<>> \/ ~AllDigits(body)
        THEN [ok |-> FALSE, v |-> 0]
        ELSE [ok |-> TRUE,
              v |-> IF signed /\ Head(s) = "-" THEN 0 - UAtoi(body)
                    ELSE UAtoi(body)]

(***************************************************************************)
(* float64 values.                                                         *)
(***************************************************************************)
NaN == <<0, 0>>
PosInf == <<1, 0>>
NegInf == <<-1, 0>>
FZero == <<0, 1>>
FOne == <<1, 1>>

IsNaN(x) == x = NaN
IsInf(x) == x[2] = 0 /\ x[1] # 0
IsFinite(x) == x[2] # 0

Abs(n) == IF n < 0 THEN 0 - n ELSE n
Sign(n) == IF n < 0 THEN -1 ELSE IF n > 0 THEN 1 ELSE 0

RECURSIVE GCD(_, _)
GCD(a, b) == IF b = 0 THEN a ELSE GCD(b, a % b)

\* the float64 n/d, for d > 0
Frac(n, d) ==
    LET g == GCD(Abs(n), d)
    IN  <<n \div g, d \div g>>

\* the float64 of an integer
FInt(n) == <<n, 1>>

\* x < y on float64 (false when either is NaN)
FLess(x, y) ==
    IF IsNaN(x) \/ IsNaN(y) \/ x = y THEN FALSE
    ELSE IF x = NegInf \/ y = PosInf THEN TRUE
    ELSE IF x = PosInf \/ y = NegInf THEN FALSE
    ELSE x[1] * y[2] < y[1] * x[2]

\* x == y on float64 (false when either is NaN)
FEq(x, y) == ~IsNaN(x) /\ ~IsNaN(y) /\ x = y

\* x / y on float64
FDiv(x, y) ==
    IF IsNaN(x) \/ IsNaN(y) THEN NaN
    ELSE IF IsInf(x)
         THEN IF IsInf(y) THEN NaN
              ELSE IF y[1] < 0 THEN <<0 - x[1], 0>> ELSE x
    ELSE IF IsInf(y) THEN FZero
    ELSE IF y[1] = 0
         THEN IF x[1] = 0 THEN NaN ELSE <<Sign(x[1]), 0>>
    ELSE LET g1 == GCD(Abs(x[1]), Abs(y[1]))
             g2 == GCD(x[2], y[2])
             n == (x[1] \div g1) * (y[2] \div g2)
             d == (x[2] \div g2) * (Abs(y[1]) \div g1)
         IN  IF x[1] = 0 THEN FZero
             ELSE Frac(IF y[1] < 0 THEN 0 - n ELSE n, d)

(***************************************************************************)
(* Floats as text: strconv.FormatFloat(_, 'f', 6, 64) and ParseFloat.      *)
(***************************************************************************)
\* the precision TSV formats a density with
Prec == 6

RECURSIVE Pow10(_)
Pow10(k) == IF k = 0 THEN 1 ELSE 10 * Pow10(k - 1)

\* |x - y| <= 10^-6 on float64 (false when the difference is NaN)
Within1e6(x, y) ==
    /\ IsFinite(x)
    /\ IsFinite(y)
    /\ Abs(x[1] * y[2] - y[1] * x[2]) <= (x[2] * y[2]) \div Pow10(6)

\* n as exactly k digits, zero padded on the left (n < 10^k)
RECURSIVE PadDigits(_, _)
PadDigits(n, k) ==
    IF k = 0 THEN <<>>
    ELSE PadDigits(n \div 10, k - 1) \o <<Digits[(n % 10) + 1]>>

\* |x| in units of 10^-Prec, rounded to the nearest, ties to even
RoundUnits(x) ==
    LET a == Abs(x[1]) * Pow10(Prec)
        q == a \div x[2]
        r == a % x[2]
    IN  IF 2 * r > x[2] \/ (2 * r = x[2] /\ q % 2 = 1) THEN q + 1 ELSE q

\* a FormatFloat with one decimal less than the format has
FormatFloatShort(x) ==
    IF IsNaN(x) THEN <<"N", "a", "N">>
    ELSE IF x = PosInf THEN <<"+", "I", "n", "f">>
    ELSE IF x = NegInf THEN <<"-", "I", "n", "f">>
    ELSE LET a == Abs(x[1]) * Pow10(Prec - 1)
             q == a \div x[2]
             m == IF 2 * (a % x[2]) >= x[2] THEN q + 1 ELSE q
         IN  (IF x[1] < 0 THEN <<"-">> ELSE <<>>)
             \o UItoa(m \div Pow10(Prec - 1)) \o <<".">>
             \o PadDigits(m % Pow10(Prec - 1), Prec - 1)

\* strconv.FormatFloat(x, 'f', 6, 64)
FormatFloat(x) ==
    IF IsNaN(x) THEN <<"N", "a", "N">>
    ELSE IF x = PosInf THEN <<"+", "I", "n", "f">>
    ELSE IF x = NegInf THEN <<"-", "I", "n", "f">>
    ELSE LET m == RoundUnits(x)
         IN  (IF x[1] < 0 THEN <<"-">> ELSE <<>>)
             \o UItoa(m \div Pow10(Prec)) \o <<".">>
             \o PadDigits(m % Pow10(Prec), Prec)

\* the position of the first "." of s, or 0
DotPos(s) ==
    IF \E i \in DOMAIN s : s[i] = "."
    THEN CHOOSE i \in DOMAIN s : s[i] = "." /\ \A j \in 1..(i - 1) : s[j] # "."
    ELSE 0

\* strconv.ParseFloat(s, 64) on decimal text without exponent: an optional
\* sign, then "inf" or "infinity" in any letter case, or digits with an
\* optional point; "nan" in any letter case takes no sign
ParseFloat(s) ==
    LET signed == s # <<>> /\ Head(s) \in {"+", "-"}
        neg == signed /\ Head(s) = "-"
        body == IF signed THEN Tail(s) ELSE s
        low == ToLower(body)
        dot == DotPos(body)
        ip == IF dot = 0 THEN body ELSE SubSeq(body, 1, dot - 1)
        fp == IF dot = 0 THEN <<>> ELSE SubSeq(body, dot + 1, Len(body))
    IN  IF ~signed /\ low = <<"n", "a", "n">> THEN [ok |-> TRUE, v |-> NaN]
        ELSE IF low = <<"i", "n", "f">>
                \/ low = <<"i", "n", "f", "i", "n", "i", "t", "y">>
             THEN [ok |-> TRUE, v |-> IF neg THEN NegInf ELSE PosInf]
        ELSE IF (ip = <<>> /\ fp = <<>>) \/ ~AllDigits(ip) \/ ~AllDigits(fp)
             THEN [ok |-> FALSE, v |-> FZero]
        ELSE LET n == UAtoi(ip) * Pow10(Len(fp)) + UAtoi(fp)
             IN  [ok |-> TRUE,
                  v |-> Frac(IF neg THEN 0 - n ELSE n, Pow10(Len(fp)))]

(***************************************************************************)
(* The pixelation (package earth, outside this repository): a pixelation   *)
(* is known by its equator; a *earth.Pixelation is <<>> (nil) or <<eq>>.   *)
(* The model's pixelation has one polar pixel, 0, and one ring of eq       *)
(* pixels, 1..eq, so that its length differs from its equator.             *)
(***************************************************************************)
NilPix == <<>>

\* earth.NewPixelation(eq)
NewPixelation(eq) == <<eq>>

\* Pixelation.Equator()
Equator(pix) == pix[1]

\* Pixelation.Len()
PixLen(pix) == pix[1] + 1

\* Pixelation.Pixel(lat, lon).ID(): coordinates in whole degrees
PixelID(pix, lat, lon) ==
    IF lat = 90 THEN 0 ELSE 1 + ((lon % 360) * Equator(pix)) \div 360

(***************************************************************************)
(* The Collection (ranges.go).  A map is a function; a missing key is a    *)
(* key outside its domain.                                                 *)
(***************************************************************************)
EmptyMap == [k \in {} |-> 0]

MapSet(m, k, v) == [x \in (DOMAIN m) \cup {k} |-> IF x = k THEN v ELSE m[x]]

MapDelete(m, k) == [x \in (DOMAIN m) \ {k} |-> m[x]]

\* Type valid values
Points == <<"p", "o", "i", "n", "t", "s">>
TypeRange == <<"r", "a", "n", "g", "e">>
NoType == <<>>

\* New creates a new collection of taxon ranges
New(pix) == [pix |-> pix, taxa |-> EmptyMap]

\* an Add that does not look at the type of the taxon
AddNoGuard(c, name, age, lat, lon) ==
    LET nm == canon(name)
        tax == IF nm \in DOMAIN c.taxa THEN c.taxa[nm]
               ELSE [name |-> nm, tp |-> Points, age |-> 0, rng |-> EmptyMap]
    IN  IF nm = <<>> THEN c
        ELSE [c EXCEPT !.taxa = MapSet(c.taxa, nm,
                 [tax EXCEPT !.rng = MapSet(tax.rng, PixelID(c.pix, lat, lon), FOne)])]

\* an Add that stores its age in the record of the taxon
AddSetsAge(c, name, age, lat, lon) ==
    LET nm == canon(name)
        ok == nm \in DOMAIN c.taxa
        tax == IF ok THEN [c.taxa[nm] EXCEPT !.age = age]
               ELSE [name |-> nm, tp |-> Points, age |-> age, rng |-> EmptyMap]
        c1 == [c EXCEPT !.taxa = MapSet(c.taxa, nm, tax)]
    IN  IF nm = <<>> THEN c
        ELSE IF tax.tp # Points THEN c1
        ELSE [c1 EXCEPT !.taxa = MapSet(c.taxa, nm,
                 [tax EXCEPT !.rng = MapSet(tax.rng, PixelID(c.pix, lat, lon), FOne)])]

\* an Add that turns the taxon it finds into a Points taxon
AddResetsType(c, name, age, lat, lon) ==
    LET nm == canon(name)
        tax == IF nm \in DOMAIN c.taxa THEN [c.taxa[nm] EXCEPT !.tp = Points]
               ELSE [name |-> nm, tp |-> Points, age |-> 0, rng |-> EmptyMap]
    IN  IF nm = <<>> THEN c
        ELSE [c EXCEPT !.taxa = MapSet(c.taxa, nm,
                 [tax EXCEPT !.rng = MapSet(tax.rng, PixelID(c.pix, lat, lon), FOne)])]

\* Add adds a point to a taxon: the taxon is created as Points, with the
\* zero age, when it is missing; the age argument is never read
Add(c, name, age, lat, lon) ==
    LET nm == canon(name)
        ok == nm \in DOMAIN c.taxa
        tax == IF ok THEN c.taxa[nm]
               ELSE [name |-> nm, tp |-> Points, age |-> 0, rng |-> EmptyMap]
        c1 == [c EXCEPT !.taxa = MapSet(c.taxa, nm, tax)]
    IN  IF nm = <<>> THEN c
        ELSE IF tax.tp # Points THEN c1
        ELSE [c1 EXCEPT !.taxa = MapSet(c.taxa, nm,
                 [tax EXCEPT !.rng = MapSet(tax.rng, PixelID(c.pix, lat, lon), FOne)])]

\* Age returns the age used to set a range map for a taxon
Age(c, name) ==
    LET nm == canon(name)
    IN  IF nm = <<>> \/ nm \notin DOMAIN c.taxa THEN 0 ELSE c.taxa[nm].age

\* a Delete that looks the name up as it is given
DeleteRaw(c, name) == [c EXCEPT !.taxa = MapDelete(c.taxa, name)]

\* a Delete that removes every taxon of the collection
DeleteAll(c, name) == [c EXCEPT !.taxa = EmptyMap]

\* Delete removes the indicated taxon from the collection
Delete(c, name) ==
    LET nm == canon(name)
    IN  IF nm = <<>> THEN c ELSE [c EXCEPT !.taxa = MapDelete(c.taxa, nm)]

\* HasTaxon returns true if the indicated taxon is in the collection
HasTaxon(c, name) ==
    LET nm == canon(name)
    IN  nm # <<>> /\ nm \in DOMAIN c.taxa

\* Pixelation returns the underlying pixelation of a Collection
Pixelation(c) == c.pix

\* Range returns a range map of a taxon (nil, the empty map, when unknown)
Range(c, name) ==
    LET nm == canon(name)
    IN  IF nm = <<>> \/ nm \notin DOMAIN c.taxa THEN EmptyMap ELSE c.taxa[nm].rng

\* Type returns the type of a range map for a given taxon
Type(c, name) ==
    LET nm == canon(name)
    IN  IF nm = <<>> \/ nm \notin DOMAIN c.taxa THEN NoType ELSE c.taxa[nm].tp

\* the max of Set: the largest value of rng that is greater than 0, or 0
\* (v > max is false for a NaN, and > is a total order on the other values,
\* so the result does not depend on the order of the iteration)
MaxOf(rng) ==
    LET vals == {rng[px] : px \in DOMAIN rng} \cup {FZero}
        cand == {v \in vals : ~IsNaN(v)}
    IN  CHOOSE m \in cand : \A v \in cand : ~FLess(m, v)

\* a Set that keeps the values as given
SetNoScale(c, name, age, rng) ==
    LET nm == canon(name)
        bad == {px \in DOMAIN rng : px >= PixLen(c.pix)}
        tax(S) == [name |-> nm, tp |-> TypeRange, age |-> age,
                   rng |-> [px \in S |-> rng[px]]]
    IN  IF nm = <<>> THEN {[c |-> c, panic |-> FALSE]}
        ELSE IF bad = {}
        THEN {[c |-> [c EXCEPT !.taxa = MapSet(c.taxa, nm, tax(DOMAIN rng))],
               panic |-> FALSE]}
        ELSE {[c |-> [c EXCEPT !.taxa = MapSet(c.taxa, nm, tax(S))],
               panic |-> TRUE] : S \in SUBSET ((DOMAIN rng) \ bad)}

\* a Set that writes into the range map the taxon had
SetKeepRange(c, name, age, rng) ==
    LET nm == canon(name)
        max == MaxOf(rng)
        old == IF nm \in DOMAIN c.taxa THEN c.taxa[nm].rng ELSE EmptyMap
        bad == {px \in DOMAIN rng : px >= PixLen(c.pix)}
        tax(S) == [name |-> nm, tp |-> TypeRange, age |-> age,
                   rng |-> [px \in S \cup DOMAIN old |->
                              IF px \in S THEN FDiv(rng[px], max)
                              ELSE old[px]]]
    IN  IF nm = <<>> THEN {[c |-> c, panic |-> FALSE]}
        ELSE IF bad = {}
        THEN {[c |-> [c EXCEPT !.taxa = MapSet(c.taxa, nm, tax(DOMAIN rng))],
               panic |-> FALSE]}
        ELSE {[c |-> [c EXCEPT !.taxa = MapSet(c.taxa, nm, tax(S))],
               panic |-> TRUE] : S \in SUBSET ((DOMAIN rng) \ bad)}

\* a Set whose bound on the pixels is off by one (px > Len)
SetOffByOne(c, name, age, rng) ==
    LET nm == canon(name)
        max == MaxOf(rng)
        bad == {px \in DOMAIN rng : px > PixLen(c.pix)}
        tax(S) == [name |-> nm, tp |-> TypeRange, age |-> age,
                   rng |-> [px \in S |-> FDiv(rng[px], max)]]
    IN  IF nm = <<>> THEN {[c |-> c, panic |-> FALSE]}
        ELSE IF bad = {}
        THEN {[c |-> [c EXCEPT !.taxa = MapSet(c.taxa, nm, tax(DOMAIN rng))],
               panic |-> FALSE]}
        ELSE {[c |-> [c EXCEPT !.taxa = MapSet(c.taxa, nm, tax(S))],
               panic |-> TRUE] : S \in SUBSET ((DOMAIN rng) \ bad)}

\* a Set that stores every pixel of the range map, whatever the pixelation
SetNoBound(c, name, age, rng) ==
    LET nm == canon(name)
        max == MaxOf(rng)
        tax == [name |-> nm, tp |-> TypeRange, age |-> age,
                rng |-> [px \in DOMAIN rng |-> FDiv(rng[px], max)]]
    IN  IF nm = <<>> THEN {[c |-> c, panic |-> FALSE]}
        ELSE {[c |-> [c EXCEPT !.taxa = MapSet(c.taxa, nm, tax)],
               panic |-> FALSE]}

\* Set sets a range map for a taxon: the outcomes of the call.  The taxon
\* is created or reset (age, type, an empty range) before any pixel is
\* looked at; the pixels are then stored in the order of the map's
\* iteration, which is not defined, and the first pixel out of the
\* pixelation panics: by then any subset S of the valid pixels is stored.
Set(c, name, age, rng) ==
    LET nm == canon(name)
        max == MaxOf(rng)
        bad == {px \in DOMAIN rng : px >= PixLen(c.pix)}
        tax(S) == [name |-> nm, tp |-> TypeRange, age |-> age,
                   rng |-> [px \in S |-> FDiv(rng[px], max)]]
    IN  IF nm = <<>> THEN {[c |-> c, panic |-> FALSE]}
        ELSE IF bad = {}
        THEN {[c |-> [c EXCEPT !.taxa = MapSet(c.taxa, nm, tax(DOMAIN rng))],
               panic |-> FALSE]}
        ELSE {[c |-> [c EXCEPT !.taxa = MapSet(c.taxa, nm, tax(S))],
               panic |-> TRUE] : S \in SUBSET ((DOMAIN rng) \ bad)}

\* the byte of a character of a taxon name
CharCode(ch) ==
    CASE ch = " " -> 32 [] ch = "#" -> 35 [] ch = "A" -> 65 [] ch = "B" -> 66
      [] ch = "a" -> 97 [] ch = "b" -> 98 [] OTHER -> 127

\* a < b on strings (byte-wise, as Go compares strings)
RECURSIVE StrLess(_, _)
StrLess(a, b) ==
    IF b = <<>> THEN FALSE
    ELSE IF a = <<>> THEN TRUE
    ELSE IF CharCode(Head(a)) # CharCode(Head(b))
         THEN CharCode(Head(a)) < CharCode(Head(b))
    ELSE StrLess(Tail(a), Tail(b))

\* slices.Sort on a set of strings
RECURSIVE SortStrings(_)
SortStrings(S) ==
    IF S = {} THEN <<>>
    ELSE LET m == CHOOSE x \in S : \A y \in S : ~StrLess(y, x)
         IN  <<m>> \o SortStrings(S \ {m})

\* a sort of integers in descending order
RECURSIVE SortIntsDesc(_)
SortIntsDesc(S) ==
    IF S = {} THEN <<>>
    ELSE LET m == CHOOSE x \in S : \A y \in S : x >= y
         IN  <<m>> \o SortIntsDesc(S \ {m})

\* slices.Sort on a set of integers
RECURSIVE SortInts(_)
SortInts(S) ==
    IF S = {} THEN <<>>
    ELSE LET m == CHOOSE x \in S : \A y \in S : x <= y
         IN  <<m>> \o SortInts(S \ {m})

\* a Taxa that does not sort: the names come in another order
RECURSIVE Unsorted(_)
Unsorted(S) ==
    IF S = {} THEN <<>>
    ELSE LET m == CHOOSE x \in S : \A y \in S : ~StrLess(x, y)
         IN  <<m>> \o Unsorted(S \ {m})

TaxaUnsorted(c) == Unsorted({c.taxa[k].name : k \in DOMAIN c.taxa})

\* Taxa returns the taxon names of the collection, sorted
Taxa(c) == SortStrings({c.taxa[k].name : k \in DOMAIN c.taxa})

(***************************************************************************)
(* The operations of the Collection whose code is not among the sources:   *)
(* modelled from the specification and from TestSetPixels, TestAddPixel.   *)
(***************************************************************************)
\* AddPixel: Add with the pixel given; a new taxon is Points, at the age
\* given (TestAddPixel reads the age back); no-op on a Range taxon
AddPixel(c, name, age, px) ==
    LET nm == canon(name)
        ok == nm \in DOMAIN c.taxa
        tax == IF ok THEN c.taxa[nm]
               ELSE [name |-> nm, tp |-> Points, age |-> age, rng |-> EmptyMap]
    IN  IF nm = <<>> THEN c
        ELSE IF tax.tp # Points THEN c
        ELSE [c EXCEPT !.taxa = MapSet(c.taxa, nm,
                 [tax EXCEPT !.rng = MapSet(tax.rng, px, FOne)])]

\* a SetPixels that keeps the values it is given
SetPixelsKeepValues(c, name, age, rng) ==
    LET nm == canon(name)
    IN  IF nm = <<>> THEN c
        ELSE [c EXCEPT !.taxa = MapSet(c.taxa, nm,
                 [name |-> nm, tp |-> Points, age |-> age, rng |-> rng])]

\* SetPixels: the taxon becomes Points, at the age given, with the pixels
\* of rng, each at 1.0
SetPixels(c, name, age, rng) ==
    LET nm == canon(name)
    IN  IF nm = <<>> THEN c
        ELSE [c EXCEPT !.taxa = MapSet(c.taxa, nm,
                 [name |-> nm, tp |-> Points, age |-> age,
                  rng |-> [px \in DOMAIN rng |-> FOne]])]

(***************************************************************************)
(* The TSV codec.  A file is a sequence of lines, a line a sequence of     *)
(* fields (the text between the tabs), a field a string.                   *)
(***************************************************************************)
F_taxon == <<"t", "a", "x", "o", "n">>
F_type == <<"t", "y", "p", "e">>
F_age == <<"a", "g", "e">>
F_equator == <<"e", "q", "u", "a", "t", "o", "r">>
F_pixel == <<"p", "i", "x", "e", "l">>
F_density == <<"d", "e", "n", "s", "i", "t", "y">>

headerFields == <<F_taxon, F_type, F_age, F_equator, F_pixel, F_density>>

\* a comment line of TSV ("# ..."): only its first character matters
CommentLine == <<<<"#", " ">>>>

\* the rows TSV writes for one taxon: its pixels in ascending order
TaxonRows(c, tax) ==
    LET pixels == SortInts(DOMAIN tax.rng)
    IN  [i \in 1..Len(pixels) |->
            <<tax.name, tax.tp, Itoa(tax.age), Itoa(Equator(c.pix)),
              Itoa(pixels[i]), FormatFloat(tax.rng[pixels[i]])>>]

RECURSIVE DataRows(_, _)
DataRows(c, names) ==
    IF names = <<>> THEN <<>>
    ELSE TaxonRows(c, c.taxa[Head(names)]) \o DataRows(c, Tail(names))

\* TSV encodes the range maps of a collection: the lines written
TSV(c) == <<CommentLine, CommentLine, headerFields>> \o DataRows(c, Taxa(c))

\* csv.Reader with Comment = '#': a line that starts with '#' and an empty
\* line are skipped (no field of the model needs quotes)
IsComment(line) == line # <<>> /\ line[1] # <<>> /\ line[1][1] = "#"

IsEmptyLine(line) == line = <<>> \/ line = <<<<>>>>

IsRecord(line) == ~IsComment(line) /\ ~IsEmptyLine(line)

CSVRecords(lines) == SelectSeq(lines, IsRecord)

\* the fields map of ReadTSV: lower-cased header -> its last column
FieldIndex(head) ==
    [h \in {ToLower(head[i]) : i \in DOMAIN head} |->
        CHOOSE i \in DOMAIN head :
            /\ ToLower(head[i]) = h
            /\ \A j \in DOMAIN head : ToLower(head[j]) = h => j <= i]

\* the state of ReadTSV before its first row
ReadStart(pix) ==
    [pix |-> pix, made |-> FALSE, taxa |-> EmptyMap, max |-> EmptyMap,
     err |-> "", rows |-> 0]

\* a reader that takes the equator of a row as it comes
EquatorAny(pix, eq) == FALSE

\* the equator of a row is not the equator of the pixelation
EquatorMismatch(pix, eq) == Equator(pix) # eq

\* a reader that compares the type of a row only
TaxonTypeOnly(tax, tp, age) == IF tax.tp # tp THEN "type" ELSE ""

\* the type or the age of a row is not the one of its taxon
TaxonMismatch(tax, tp, age) ==
    IF tax.tp # tp THEN "type"
    ELSE IF tax.age # age THEN "age"
    ELSE ""

\* a reader that takes the density of a row whatever the type
RowDensityAny(tp, dr) == dr.v

\* a reader that takes the density of a row whenever its column parses
RowDensityParsed(tp, dr) == IF tp = TypeRange \/ dr.ok THEN dr.v ELSE FOne

\* the density of a row: parsed for a Range taxon only, 1 otherwise
RowDensity(tp, dr) == IF tp = TypeRange THEN dr.v ELSE FOne

MaxGet(max, name) == IF name \in DOMAIN max THEN max[name] ELSE FZero

\* one iteration of the loop of ReadTSV on a record of the file;
\* st.made is c != nil, st.err the error returned (none: "")
ReadRow(st, fields, nfields, row) ==
    LET fail(e) == [st EXCEPT !.err = e, !.rows = @ + 1]
        eqr == Atoi(row[fields[F_equator]])
        pix == IF st.pix = NilPix THEN NewPixelation(eqr.v) ELSE st.pix
        tok == ToLower(row[fields[F_type]])
        tp == IF tok = TypeRange THEN TypeRange ELSE Points
        ager == Atoi(row[fields[F_age]])
        nm == canon(row[fields[F_taxon]])
        tax == IF nm \in DOMAIN st.taxa THEN st.taxa[nm]
               ELSE [name |-> nm, tp |-> tp, age |-> ager.v, rng |-> EmptyMap]
        pxr == Atoi(row[fields[F_pixel]])
        dr == ParseFloat(row[fields[F_density]])
        density == RowDensity(tax.tp, dr)
        st1 == [st EXCEPT !.pix = pix, !.made = TRUE, !.rows = @ + 1]
    IN  IF Len(row) # nfields THEN fail("fields")
        ELSE IF ~eqr.ok THEN fail("equator")
        ELSE IF EquatorMismatch(pix, eqr.v) THEN fail("equator")
        ELSE IF tok \notin {Points, TypeRange, <<>>} THEN fail("type")
        ELSE IF ~ager.ok THEN fail("age")
        ELSE IF nm = <<>> THEN st1
        ELSE IF TaxonMismatch(tax, tp, ager.v) # ""
             THEN fail(TaxonMismatch(tax, tp, ager.v))
        ELSE IF ~pxr.ok THEN fail("pixel")
        ELSE IF pxr.v >= PixLen(pix) THEN fail("pixel")
        ELSE IF tax.tp = TypeRange /\ ~dr.ok THEN fail("density")
        ELSE [st1 EXCEPT
                !.taxa = MapSet(st.taxa, nm,
                            [tax EXCEPT !.rng = MapSet(tax.rng, pxr.v, density)]),
                !.max = IF FLess(MaxGet(st.max, nm), density)
                        THEN MapSet(st.max, nm, density) ELSE st.max]

\* the loop of ReadTSV: it ends at the first error
RECURSIVE ReadRows(_, _, _, _)
ReadRows(st, fields, nfields, rows) ==
    IF rows = <<>> \/ st.err # "" THEN st
    ELSE ReadRows(ReadRow(st, fields, nfields, Head(rows)), fields, nfields,
                  Tail(rows))

\* the second pass of ReadTSV ("scale values")
ScaleTaxa(st) ==
    [nm \in DOMAIN st.taxa |->
        LET tax == st.taxa[nm]
            scale == MaxGet(st.max, tax.name)
        IN  IF tax.tp = Points \/ FEq(scale, FOne) THEN tax
            ELSE [tax EXCEPT !.rng = [px \in DOMAIN tax.rng |->
                                         FDiv(tax.rng[px], scale)]]]

\* a ReadTSV that returns what it has built together with the error
ReadEndPartial(st) ==
    IF ~st.made THEN [c |-> <<>>, err |-> IF st.err # "" THEN st.err ELSE "EOF"]
    ELSE [c |-> <<[pix |-> st.pix, taxa |-> ScaleTaxa(st)]>>, err |-> st.err]

\* a ReadTSV that returns an empty collection for a file without rows
ReadEndEmpty(st) ==
    IF st.err # "" THEN [c |-> <<>>, err |-> st.err]
    ELSE [c |-> <<[pix |-> st.pix, taxa |-> ScaleTaxa(st)]>>, err |-> ""]

\* what ReadTSV returns after its loop: c is <<>> (nil) or <<collection>>
ReadEnd(st) ==
    IF st.err # "" THEN [c |-> <<>>, err |-> st.err]
    ELSE IF ~st.made THEN [c |-> <<>>, err |-> "EOF"]
    ELSE [c |-> <<[pix |-> st.pix, taxa |-> ScaleTaxa(st)]>>, err |-> ""]

\* ReadTSV reads a collection of range maps from a TSV file
ReadTSV(lines, pix) ==
    LET recs == CSVRecords(lines)
    IN  IF recs = <<>> THEN [c |-> <<>>, err |-> "header"]
        ELSE LET fields == FieldIndex(recs[1])
             IN  IF \E i \in DOMAIN headerFields :
                        headerFields[i] \notin DOMAIN fields
                 THEN [c |-> <<>>, err |-> "header"]
                 ELSE ReadEnd(ReadRows(ReadStart(pix), fields, Len(recs[1]),
                                       Tail(recs)))

(***************************************************************************)
(* The inputs of the model.                                                *)
(***************************************************************************)
\* raw taxon names: "a b", " A  B ", "b", "#a", "  "
Names ==
    {<<"a", " ", "b">>, <<" ", "A", " ", " ", "B", " ">>, <<"b">>,
     <<"#", "a">>, <<" ", " ">>}

Ages == {0, 1}

\* coordinates <<lat, lon>>: the pole, and a point of the ring
Coords == {<<90, 0>>, <<0, 180>>}

\* the pixelation of the collection under test: pixels 0 and 1
TestPix == NewPixelation(1)

\* a range map from its pairs <<pixel, value>>
Field(pairs) ==
    [px \in {p[1] : p \in pairs} |->
        FInt((CHOOSE p \in pairs : p[1] = px)[2])]

\* range maps handed to Set and SetPixels: values to rescale by 3, a zero
\* beside a positive value, only a zero, no pixel at all, and a pixel
\* outside the pixelation
TestFields ==
    {Field({<<0, 2>>, <<1, 3>>}), Field({<<0, 0>>, <<1, 3>>}),
     Field({<<0, 0>>}), Field({}), Field({<<1, 3>>, <<2, 2>>})}

\* pixels handed to AddPixel: the pixels of the pixelation
TestPixels == 0..(PixLen(TestPix) - 1)

(***************************************************************************)
(* The state machine: a collection under a sequence of calls, and one      *)
(* ReadTSV reading a file record by record.                                *)
(***************************************************************************)
VARIABLES
    c,      \* the collection
    nops,   \* the calls made on c
    last,   \* the last call on c: its arguments, the type the taxon had
            \* before it, and whether it panicked
    arg,    \* the pixelation handed to ReadTSV
    head,   \* the header of the file ReadTSV reads
    input,  \* the data records ReadTSV has read, in file order
    pc,     \* where ReadTSV is: "header", "rows" or "done"; with no ReadTSV,
            \* "idle" (calls of Add, Set, Delete), "api" (AddPixel and
            \* SetPixels are called too) or "names" (calls with the two
            \* spellings of pair)
    st,     \* the state of the loop of ReadTSV
    ret,    \* what ReadTSV returned, once done
    pair,   \* two spellings of a name, handed to the calls on c
    key     \* canon applied to pair[1], and canon applied to that

vars == <<c, nops, last, arg, head, input, pc, st, ret, pair, key>>

collVars == <<c, nops, last>>
readVars == <<arg, head, input, pc, st, ret>>
nameVars == <<pair, key>>

Call(op, name, age, lat, lon, px, rng, had, panic) ==
    [op |-> op, name |-> name, age |-> age, lat |-> lat, lon |-> lon,
     px |-> px, rng |-> rng, had |-> had, panic |-> panic]

NoCall == Call("New", <<>>, 0, 0, 0, 0, EmptyMap, NoType, FALSE)

NotReturned == [done |-> FALSE, c |-> <<>>, err |-> ""]

NoPair == <<<<>>, <<>>>>

Init ==
    /\ c = New(TestPix)
    /\ nops = 0
    /\ last = NoCall
    /\ arg = NilPix
    /\ head = headerFields
    /\ input = <<>>
    /\ pc = "idle"
    /\ st = ReadStart(NilPix)
    /\ ret = NotReturned
    /\ pair = NoPair
    /\ key = <<>>

\* the program goes on with its calls on c: no call panicked
Running ==
    /\ pc \in {"idle", "api", "names"}
    /\ ~last.panic
    /\ nops < (CASE pc = "api" -> MaxAPIOps [] pc = "names" -> MaxNameOps
                  [] OTHER -> MaxOps)

\* a call of Add
DoAdd ==
    /\ Running
    /\ \E name \in Names, age \in Ages, pt \in Coords :
        /\ c' = Add(c, name, age, pt[1], pt[2])
        /\ nops' = nops + 1
        /\ last' = Call("Add", name, age, pt[1], pt[2], 0, EmptyMap,
                        Type(c, name), FALSE)
        /\ UNCHANGED <<readVars, nameVars>>

\* a call of Set: it returns, or panics and ends the program
DoSet ==
    /\ Running
    /\ \E name \in Names, age \in Ages, rng \in TestFields :
        \E out \in Set(c, name, age, rng) :
            /\ c' = out.c
            /\ nops' = nops + 1
            /\ last' = Call("Set", name, age, 0, 0, 0, rng, Type(c, name),
                            out.panic)
            /\ UNCHANGED <<readVars, nameVars>>

\* a call of Delete
DoDelete ==
    /\ Running
    /\ \E name \in Names :
        /\ c' = Delete(c, name)
        /\ nops' = nops + 1
        /\ last' = Call("Delete", name, 0, 0, 0, 0, EmptyMap, Type(c, name),
                        FALSE)
        /\ UNCHANGED <<readVars, nameVars>>

\* a call of AddPixel
DoAddPixel ==
    /\ Running
    /\ \E name \in Names, age \in Ages, px \in TestPixels :
        /\ c' = AddPixel(c, name, age, px)
        /\ nops' = nops + 1
        /\ last' = Call("AddPixel", name, age, 0, 0, px, EmptyMap,
                        Type(c, name), FALSE)
        /\ UNCHANGED <<readVars, nameVars>>

\* a call of SetPixels
DoSetPixels ==
    /\ Running
    /\ \E name \in Names, age \in Ages, rng \in TestFields :
        /\ c' = SetPixels(c, name, age, rng)
        /\ nops' = nops + 1
        /\ last' = Call("SetPixels", name, age, 0, 0, 0, rng, Type(c, name),
                        FALSE)
        /\ UNCHANGED <<readVars, nameVars>>

Next == DoAdd \/ DoSet \/ DoDelete

\* the collection under Add, Set and Delete
Spec == Init /\ [][Next]_vars

InitAPI ==
    /\ c = New(TestPix)
    /\ nops = 0
    /\ last = NoCall
    /\ arg = NilPix
    /\ head = headerFields
    /\ input = <<>>
    /\ pc = "api"
    /\ st = ReadStart(NilPix)
    /\ ret = NotReturned
    /\ pair = NoPair
    /\ key = <<>>

NextAPI == DoAdd \/ DoSet \/ DoDelete \/ DoAddPixel \/ DoSetPixels

\* the collection under all its mutators
SpecAPI == InitAPI /\ [][NextAPI]_vars

(***************************************************************************)
(* ReadTSV on a file that arrives line by line.  A line of the file is     *)
(* given by the text of its six columns; Layout puts them in the order of  *)
(* the header.                                                             *)
(***************************************************************************)
S_ab == <<"a", " ", "b">>
S_AB == <<" ", "A", " ", " ", "B">>
S_b == <<"b">>
S_hash == <<"#", "a">>
S_range == <<"r", "a", "n", "g", "e">>
S_Range == <<"R", "a", "n", "g", "e">>
S_points == <<"p", "o", "i", "n", "t", "s">>
S_POINTS == <<"P", "O", "I", "N", "T", "S">>
S_poly == <<"p", "o", "l", "y">>
S_x == <<"x">>
S_half == <<"0", ".", "5">>
S_quarter == <<"0", ".", "2", "5">>

Line(taxon, type, age, equator, pixel, density) ==
    [taxon |-> taxon, type |-> type, age |-> age, equator |-> equator,
     pixel |-> pixel, density |-> density]

\* the lines a file may hold after its header
TestLines ==
    {Line(S_ab, S_range, <<"0">>, <<"1">>, <<"0">>, S_half),
     Line(S_AB, S_Range, <<"0">>, <<"1">>, <<"1">>, <<"2">>),
     Line(S_ab, S_range, <<"0">>, <<"1">>, <<"0">>, <<"1">>),
     Line(S_ab, S_points, <<"0">>, <<"1">>, <<"0">>, S_x),
     Line(S_ab, S_range, <<"1">>, <<"1">>, <<"1">>, S_half),
     Line(S_b, <<>>, <<"1">>, <<"1">>, <<"1">>, <<>>),
     Line(S_b, S_POINTS, <<"1">>, <<"1">>, <<"0">>, S_quarter),
     Line(S_b, S_range, <<"1">>, <<"1">>, <<"0">>, <<"0">>),
     Line(<<>>, S_range, <<"0">>, <<"1">>, <<"0">>, <<"1">>),
     Line(<<" ">>, S_points, <<"1">>, <<"1">>, <<"0">>, <<"1">>),
     Line(<<>>, S_range, <<"0">>, <<"2">>, <<"0">>, <<"1">>),
     Line(S_ab, S_range, <<"0">>, <<"2">>, <<"0">>, <<"1">>),
     Line(S_b, S_points, <<"1">>, <<"2">>, <<"2">>, <<"0">>),
     Line(S_ab, S_range, <<"0">>, <<"1">>, <<"2">>, <<"1">>),
     Line(S_ab, S_range, <<"0">>, <<"1">>, <<"-", "1">>, <<"1">>),
     Line(S_ab, S_range, <<"0">>, S_x, <<"0">>, <<"1">>),
     Line(S_ab, S_poly, <<"0">>, <<"1">>, <<"0">>, <<"1">>),
     Line(S_ab, S_range, S_x, <<"1">>, <<"0">>, <<"1">>),
     Line(S_ab, S_range, <<"0">>, <<"1">>, S_x, <<"1">>),
     Line(S_ab, S_range, <<"0">>, <<"1">>, <<"0">>, S_x),
     Line(S_hash, S_points, <<"0">>, <<"1">>, <<"0">>, <<"1">>)}

\* the headers a file may have: the six columns in another order and
\* another letter case, and a header without the density column
TestHeaders ==
    {<<<<"T", "a", "x", "o", "n">>, <<"D", "E", "N", "S", "I", "T", "Y">>,
       F_pixel, <<"E", "q", "u", "a", "t", "o", "r">>, <<"A", "G", "E">>,
       F_type>>,
     <<F_taxon, F_type, F_age, F_equator, F_pixel>>}

\* the pixelations handed to ReadTSV
TestArgs == {NilPix, NewPixelation(1)}

\* the text of column h of a line
Column(ln, h) ==
    CASE h = F_taxon -> ln.taxon [] h = F_type -> ln.type
      [] h = F_age -> ln.age [] h = F_equator -> ln.equator
      [] h = F_pixel -> ln.pixel [] h = F_density -> ln.density
      [] OTHER -> <<>>

\* the fields of a line under a header
Layout(hd, ln) == [i \in DOMAIN hd |-> Column(ln, ToLower(hd[i]))]

HeaderOK(hd) ==
    \A i \in DOMAIN headerFields : headerFields[i] \in DOMAIN FieldIndex(hd)

Returned(r) == [done |-> TRUE, c |-> r.c, err |-> r.err]

InitRead ==
    /\ c = New(TestPix)
    /\ nops = 0
    /\ last = NoCall
    /\ arg \in TestArgs
    /\ head \in TestHeaders
    /\ input = <<>>
    /\ pc = "header"
    /\ st = ReadStart(arg)
    /\ ret = NotReturned
    /\ pair = NoPair
    /\ key = <<>>

\* ReadTSV reads the header and looks for its six columns
ReadHeader ==
    /\ pc = "header"
    /\ IF HeaderOK(head)
       THEN pc' = "rows" /\ ret' = ret
       ELSE pc' = "done" /\ ret' = Returned([c |-> <<>>, err |-> "header"])
    /\ UNCHANGED <<c, nops, last, arg, head, input, st, pair, key>>

\* ReadTSV reads the next line: a comment is skipped, a record goes
\* through one iteration of the loop, and an error ends the call
ReadLine ==
    /\ pc = "rows"
    /\ Len(input) < MaxRows
    /\ \E ln \in TestLines :
        LET fields == Layout(head, ln)
            next == IF IsRecord(fields)
                    THEN ReadRow(st, FieldIndex(head), Len(head), fields)
                    ELSE st
        IN  /\ input' = Append(input, ln)
            /\ st' = next
            /\ IF next.err # ""
               THEN pc' = "done" /\ ret' = Returned(ReadEnd(next))
               ELSE pc' = pc /\ ret' = ret
    /\ UNCHANGED <<c, nops, last, arg, head, pair, key>>

\* ReadTSV reaches the end of the file: the values are scaled
ReadEOF ==
    /\ pc = "rows"
    /\ pc' = "done"
    /\ ret' = Returned(ReadEnd(st))
    /\ UNCHANGED <<c, nops, last, arg, head, input, st, pair, key>>

NextRead == ReadHeader \/ ReadLine \/ ReadEOF

\* one call of ReadTSV
SpecRead == InitRead /\ [][NextRead]_vars

InitBoth == Init \/ InitRead

NextBoth == Next \/ NextRead

\* a collection under Add, Set and Delete, or one call of ReadTSV
SpecBoth == InitBoth /\ [][NextBoth]_vars

(***************************************************************************)
(* canon on the spellings of a name, and the calls on a collection with    *)
(* two spellings of one name.                                              *)
(***************************************************************************)
NameChars == {" ", "a", "A"}

\* the spellings: every string of up to MaxName characters
RawNames == UNION {[1..n -> NameChars] : n \in 0..MaxName}

\* s without its leading spaces
RECURSIVE TrimLeft(_)
TrimLeft(s) ==
    IF s # <<>> /\ IsSpace(Head(s)) THEN TrimLeft(Tail(s)) ELSE s

\* s with every run of spaces made one space, and none at its ends
RECURSIVE Squeeze(_)
Squeeze(s) ==
    LET t == TrimLeft(s)
    IN  IF t = <<>> THEN <<>>
        ELSE IF IsSpace(Head(s)) THEN Squeeze(t)
        ELSE <<Head(s)>>
             \o (IF Tail(s) # <<>> /\ IsSpace(Head(Tail(s)))
                    /\ TrimLeft(Tail(s)) # <<>>
                 THEN <<" ">> ELSE <<>>)
             \o Squeeze(TrimLeft(Tail(s)))

\* two spellings differ in letter case and in spaces at most
SameName(x, y) == ToLower(Squeeze(x)) = ToLower(Squeeze(y))

InitNames ==
    /\ c = New(TestPix)
    /\ nops = 0
    /\ last = NoCall
    /\ arg = NilPix
    /\ head = headerFields
    /\ input = <<>>
    /\ pc = "names"
    /\ st = ReadStart(NilPix)
    /\ ret = NotReturned
    /\ pair \in {p \in RawNames \X RawNames : SameName(p[1], p[2])}
    /\ key = <<>>

\* canon on pair[1], then on what canon returned
CanonAgain ==
    /\ Len(key) < 2
    /\ key' = Append(key, canon(IF key = <<>> THEN pair[1] ELSE key[Len(key)]))
    /\ UNCHANGED <<collVars, readVars, pair>>

\* a call of Add under the first spelling
NameAdd ==
    /\ Running
    /\ Len(key) = 2
    /\ c' = Add(c, pair[1], 0, 90, 0)
    /\ nops' = nops + 1
    /\ last' = Call("Add", pair[1], 0, 90, 0, 0, EmptyMap, Type(c, pair[1]),
                    FALSE)
    /\ UNCHANGED <<readVars, nameVars>>

\* a call of Set under the second spelling
NameSet ==
    /\ Running
    /\ Len(key) = 2
    /\ LET rng == Field({<<0, 2>>, <<1, 3>>})
       IN  \E out \in Set(c, pair[2], 1, rng) :
               /\ c' = out.c
               /\ nops' = nops + 1
               /\ last' = Call("Set", pair[2], 1, 0, 0, 0, rng,
                               Type(c, pair[2]), out.panic)
    /\ UNCHANGED <<readVars, nameVars>>

\* a call of Delete under the second spelling
NameDelete ==
    /\ Running
    /\ Len(key) = 2
    /\ c' = Delete(c, pair[2])
    /\ nops' = nops + 1
    /\ last' = Call("Delete", pair[2], 0, 0, 0, 0, EmptyMap, Type(c, pair[2]),
                    FALSE)
    /\ UNCHANGED <<readVars, nameVars>>

NextNames == CanonAgain \/ NameAdd \/ NameSet \/ NameDelete

\* canon, and the calls on a collection, on two spellings of a name
SpecNames == InitNames /\ [][NextNames]_vars

(***************************************************************************)
(* The claims.                                                             *)
(***************************************************************************)
\* the canonical name of the last call
LastName == canon(last.name)

\* the last call was op, returned, and named a taxon
Did(op) == last.op = op /\ ~last.panic /\ LastName # <<>>

\* decode(encode(col)) with no pixelation given
RoundTrip(col) == ReadTSV(TSV(col), NilPix)

\* same taxa, and per taxon same type, age, pixels, and densities within 10^-6
SameCollection(a, b) ==
    /\ Taxa(a) = Taxa(b)
    /\ \A nm \in DOMAIN a.taxa :
        /\ Type(a, nm) = Type(b, nm)
        /\ Age(a, nm) = Age(b, nm)
        /\ DOMAIN Range(a, nm) = DOMAIN Range(b, nm)
        /\ \A px \in DOMAIN Range(a, nm) :
              Within1e6(Range(a, nm)[px], Range(b, nm)[px])

RoundTripSame(col) ==
    LET r == RoundTrip(col)
    IN  r.err = "" /\ r.c # <<>> /\ SameCollection(col, r.c[1])

\* what a file can hold of a collection: at least one taxon, every taxon
\* with a pixel, only finite densities, no name that starts a comment
Storable(col) ==
    /\ DOMAIN col.taxa # {}
    /\ \A nm \in DOMAIN col.taxa :
        /\ Head(nm) # "#"
        /\ DOMAIN col.taxa[nm].rng # {}
        /\ \A px \in DOMAIN col.taxa[nm].rng : IsFinite(col.taxa[nm].rng[px])

\* C1 (as stated): every collection reached by New, Add, Set and Delete,
\* the empty one included, is read back from its own TSV with the same
\* taxa, types, ages and ranges (densities within 10^-6).
C1_RoundTripEvery == ~last.panic => RoundTripSame(c)

\* C1 (amended): a collection reached by New, Add, Set and Delete that holds
\* at least one taxon, whose taxa all have a pixel and only finite
\* densities, and none of whose names starts with '#', is read back from its
\* own TSV with the same taxa, types, ages and ranges (densities within
\* 10^-6); the TSV of the empty collection is not read back: ReadTSV fails.
C1_RoundTripStorable ==
    ~last.panic =>
        /\ Storable(c) => RoundTripSame(c)
        /\ DOMAIN c.taxa = {} => RoundTrip(c).err # "" /\ RoundTrip(c).c = <<>>

\* C1 witness: a collection with a Points taxon and a Range taxon, one
\* density of which (2/3) is not the one read back (0.666667)
C1_Witness ==
    /\ ~last.panic
    /\ Storable(c)
    /\ \E n1, n2 \in DOMAIN c.taxa :
        /\ c.taxa[n1].tp = Points
        /\ c.taxa[n2].tp = TypeRange
        /\ c.taxa[n2].age = 1
        /\ \E px \in DOMAIN c.taxa[n2].rng :
              RoundTrip(c).c[1].taxa[n2].rng[px] # c.taxa[n2].rng[px]
    /\ RoundTripSame(c)

\* the maximum of the values of a range map is exactly 1.0
MaxIsOne(rng) ==
    /\ \E px \in DOMAIN rng : rng[px] = FOne
    /\ \A px \in DOMAIN rng : ~IsNaN(rng[px]) /\ ~FLess(FOne, rng[px])

FieldMax(rng) ==
    CHOOSE m \in {rng[px] : px \in DOMAIN rng} :
        \A px \in DOMAIN rng : ~FLess(m, rng[px])

C4_AddOnRangeIsNoOp ==
    [][(last'.op = "Add" /\ Type(c, last'.name) = TypeRange) =>
          /\ Range(c', last'.name) = Range(c, last'.name)
          /\ Type(c', last'.name) = Type(c, last'.name)
          /\ Age(c', last'.name) = Age(c, last'.name)]_vars

\* C4 witness: Add was called on a Range taxon, with another age and a point
\* in a pixel the range does not hold
C4_Witness ==
    /\ last.op = "Add"
    /\ last.had = TypeRange
    /\ last.age # Age(c, last.name)
    /\ PixelID(c.pix, last.lat, last.lon) \notin DOMAIN Range(c, last.name)

\* C5: after Add(name, age, lat, lon) on a taxon that is not in the
\* collection, the taxon is there, of type Points, with the one pixel of
\* the point at 1.0, and with the age given to Add.
C5_AddCreatesAtAge ==
    (Did("Add") /\ last.had = NoType) =>
        /\ HasTaxon(c, last.name)
        /\ Type(c, last.name) = Points
        /\ Range(c, last.name)
             = [px \in {PixelID(c.pix, last.lat, last.lon)} |-> FOne]
        /\ Age(c, last.name) = last.age

\* C6: after SetPixels(name, age, pixels) on a taxon that is absent, of
\* type Points or of type Range, the taxon is of type Points, has the age
\* given, and has exactly the pixels given, each at 1.0 whatever its value.
C6_SetPixels ==
    Did("SetPixels") =>
        /\ Type(c, last.name) = Points
        /\ Age(c, last.name) = last.age
        /\ Range(c, last.name) = [px \in DOMAIN last.rng |-> FOne]

\* C6 witness: SetPixels on a Range taxon, with another age and with a
\* value that is not 1.0
C6_Witness ==
    /\ Did("SetPixels")
    /\ last.had = TypeRange
    /\ last.age = 1
    /\ \E px \in DOMAIN last.rng : last.rng[px] # FOne
    /\ DOMAIN Range(c, last.name) = DOMAIN last.rng

\* C7: in every collection, AddPixel(name, age, id) with id the pixel of
\* (lat, lon) gives the collection that Add(name, age, lat, lon) gives.
C7_AddPixelIsAdd ==
    ~last.panic =>
        \A name \in Names, age \in Ages, pt \in Coords :
            AddPixel(c, name, age, PixelID(c.pix, pt[1], pt[2]))
                = Add(c, name, age, pt[1], pt[2])

\* a pixel of the range map is outside the pixelation
Outside(col, rng) == \E px \in DOMAIN rng : px >= PixLen(col.pix)

\* C8 (as stated): Set(name, age, field) panics if some pixel of field is
\* at or above the number of pixels of the pixelation, and does not panic
\* if every pixel is below it.
C8_SetPanicsIffOutside ==
    last.op = "Set" => (last.panic <=> Outside(c, last.rng))

\* C8 (amended): Set(name, age, field) with a name that is not empty after
\* canon panics if some pixel of field is at or above the number of pixels
\* of the pixelation, and does not panic if every pixel is below it; with
\* a name that is empty after canon it returns without a panic.
C8_SetPanicsIffOutsideNamed ==
    last.op = "Set" =>
        IF LastName = <<>> THEN ~last.panic
        ELSE last.panic <=> Outside(c, last.rng)

\* C8 witness: Set has panicked on a field with a pixel inside and a pixel
\* outside the pixelation
C8_Witness ==
    /\ last.op = "Set"
    /\ last.panic
    /\ Outside(c, last.rng)
    /\ \E px \in DOMAIN last.rng : px < PixLen(c.pix)

\* the data rows of the file read so far: the lines that are no comment
DataLines == {i \in DOMAIN input : IsRecord(Layout(head, input[i]))}

\* the type a row states ("" when it is no type)
RowType(ln) ==
    LET tok == ToLower(ln.type)
    IN  IF tok = TypeRange THEN TypeRange
        ELSE IF tok \in {Points, <<>>} THEN Points
        ELSE NoType

\* rows i < j name the same taxon with another type or another age
Differ(i, j) ==
    /\ i < j
    /\ canon(input[i].taxon) = canon(input[j].taxon)
    /\ \/ RowType(input[i]) # RowType(input[j])
       \/ /\ Atoi(input[i].age).ok
          /\ Atoi(input[j].age).ok
          /\ Atoi(input[i].age).v # Atoi(input[j].age).v

ReadFailed == pc = "done" /\ ret.err # "" /\ ret.c = <<>>

\* C9 (as stated): a file with two data rows whose taxon names are the
\* same after canon and whose type or age differ is not read: ReadTSV
\* returns an error and no collection.
C9_Consistency ==
    (pc = "done" /\ \E i, j \in DataLines : Differ(i, j)) => ReadFailed

\* C9 (amended): a file with two data rows whose taxon names are the same
\* after canon, and not empty, and whose type or age differ is not read:
\* ReadTSV returns an error and no collection.
C9_ConsistencyNamed ==
    (/\ pc = "done"
     /\ \E i, j \in DataLines :
           Differ(i, j) /\ canon(input[i].taxon) # <<>>) => ReadFailed

\* C9 witness: ReadTSV stopped at a row that gives a taxon of an earlier
\* row, under another spelling of its name, another age
C9_Witness ==
    /\ ReadFailed
    /\ ret.err = "age"
    /\ \E i, j \in DataLines :
        /\ Differ(i, j)
        /\ j = Len(input)
        /\ input[i].taxon # input[j].taxon
        /\ canon(input[i].taxon) # <<>>
        /\ RowType(input[i]) = RowType(input[j])

\* C10: the collection ReadTSV returns has the pixelation it was given;
\* given none, it has the pixelation of the equator of the first data
\* row; no data row of a file that was read has another equator.
C10_Resolution ==
    (pc = "done" /\ ret.err = "") =>
        /\ ret.c # <<>>
        /\ arg # NilPix => Pixelation(ret.c[1]) = arg
        /\ arg = NilPix =>
              \A i \in DataLines :
                  (\A j \in DataLines : i <= j) =>
                      Pixelation(ret.c[1])
                          = NewPixelation(Atoi(input[i].equator).v)
        /\ \A i \in DataLines :
              /\ Atoi(input[i].equator).ok
              /\ Atoi(input[i].equator).v = Equator(Pixelation(ret.c[1]))

\* C10 witness: ReadTSV was given no pixelation and read a file of two
\* data rows at least, all of equator 2
C10_Witness ==
    /\ pc = "done"
    /\ ret.err = ""
    /\ arg = NilPix
    /\ Equator(Pixelation(ret.c[1])) = 2
    /\ \E i, j \in DataLines : i < j /\ canon(input[j].taxon) # <<>>

\* ReadTSV returned a collection
ReadOK == pc = "done" /\ ret.err = "" /\ ret.c # <<>>

\* the data rows read for a taxon, and those of them for one pixel
TaxonLines(nm) == {i \in DataLines : canon(input[i].taxon) = nm}

PixelLines(nm, px) == {i \in TaxonLines(nm) : Atoi(input[i].pixel).v = px}

\* the density parsed for a pixel of a taxon: the one of its last row
ParsedAt(nm, px) ==
    LET i == CHOOSE k \in PixelLines(nm, px) :
                 \A j \in PixelLines(nm, px) : j <= k
    IN  ParseFloat(input[i].density).v

\* the largest density parsed in the rows of a taxon
LargestParsed(nm) ==
    LET vals == {ParseFloat(input[i].density).v : i \in TaxonLines(nm)}
    IN  CHOOSE m \in vals : \A v \in vals : ~FLess(m, v)

\* C11: in a collection returned by ReadTSV every Range taxon has a pixel
\* of density 1.0, and every density is the one parsed for the pixel
\* divided by the largest density parsed for the taxon, whatever the rows.
C11_DecodeNormalised ==
    ReadOK =>
        \A nm \in DOMAIN ret.c[1].taxa :
            Type(ret.c[1], nm) = TypeRange =>
                /\ \E px \in DOMAIN Range(ret.c[1], nm) :
                      Range(ret.c[1], nm)[px] = FOne
                /\ \A px \in DOMAIN Range(ret.c[1], nm) :
                      Range(ret.c[1], nm)[px]
                          = FDiv(ParsedAt(nm, px), LargestParsed(nm))

\* C12: when ReadTSV returns an error, at whatever row, it returns no
\* collection; the pixelation it was given is the one it holds throughout.
C12_AllOrNothing ==
    /\ (pc = "done" /\ ret.err # "") => ret.c = <<>>
    /\ arg # NilPix => st.pix = arg

\* C12 witness: ReadTSV, given a pixelation, failed at its third row after
\* it had stored a taxon
C12_Witness ==
    /\ ReadFailed
    /\ arg # NilPix
    /\ Len(input) = 3
    /\ DOMAIN st.taxa # {}
    /\ \E nm \in DOMAIN st.taxa : DOMAIN st.taxa[nm].rng # {}

\* C13: a file with a valid header and no data row is not read: ReadTSV
\* returns an error and no collection.
C13_NoRowsIsError ==
    (pc = "done" /\ HeaderOK(head) /\ DataLines = {}) => ReadFailed

\* C13 witness: ReadTSV reached the end of a file whose header is valid and
\* whose only line after it is a comment
C13_Witness ==
    /\ pc = "done"
    /\ HeaderOK(head)
    /\ Len(input) = 1
    /\ DataLines = {}
    /\ ret.err = "EOF"

\* the rows TSV writes after its two comment lines and its header
Emitted(col) == SubSeq(TSV(col), 4, Len(TSV(col)))

\* the (taxon, pixel) pairs of a collection
Pairs(col) ==
    UNION {{<<nm, px>> : px \in DOMAIN col.taxa[nm].rng} : nm \in DOMAIN col.taxa}

\* C14: after the header TSV writes one row for every (taxon, pixel) pair
\* of the collection and no other row, by taxon name ascending and, in a
\* taxon, by pixel ascending, each row with the equator of the pixelation.
C14_EncodeRowOrder ==
    ~last.panic =>
        LET rows == Emitted(c)
            px(i) == Atoi(rows[i][5]).v
        IN  /\ Len(rows) = Cardinality(Pairs(c))
            /\ {<<rows[i][1], px(i)>> : i \in DOMAIN rows} = Pairs(c)
            /\ \A i, j \in DOMAIN rows :
                  i < j => \/ StrLess(rows[i][1], rows[j][1])
                           \/ rows[i][1] = rows[j][1] /\ px(i) < px(j)
            /\ \A i \in DOMAIN rows :
                  Atoi(rows[i][4]) = [ok |-> TRUE, v |-> Equator(c.pix)]

\* C14 witness: a collection of three taxa, one of them with two pixels
C14_Witness ==
    /\ ~last.panic
    /\ Cardinality(DOMAIN c.taxa) = 3
    /\ \E nm \in DOMAIN c.taxa : Cardinality(DOMAIN c.taxa[nm].rng) = 2
    /\ Len(Emitted(c)) >= 4

\* C15: Taxa returns the canonical names of the taxa of the collection,
\* each once, in ascending order, in whatever order the taxa were added,
\* set or deleted; every name it returns is a taxon for HasTaxon.
C15_TaxaSorted ==
    ~last.panic =>
        LET t == Taxa(c)
        IN  /\ {t[i] : i \in DOMAIN t} = DOMAIN c.taxa
            /\ Len(t) = Cardinality(DOMAIN c.taxa)
            /\ \A i, j \in DOMAIN t : i < j => StrLess(t[i], t[j])
            /\ \A i \in DOMAIN t : HasTaxon(c, t[i]) /\ canon(t[i]) = t[i]

\* C15 witness: three taxa, the one created last being the first of Taxa
C15_Witness ==
    /\ ~last.panic
    /\ Len(Taxa(c)) = 3
    /\ last.op \in {"Add", "Set"}
    /\ last.had = NoType
    /\ LastName = Taxa(c)[1]

\* a file of two rows of type points, for the pixels 0 and 1, the first
\* under the spelling x and the second under the spelling y
TwoRows(x, y) ==
    <<headerFields,
      <<x, Points, <<"0">>, <<"1">>, <<"0">>, <<>>>>,
      <<y, Points, <<"0">>, <<"1">>, <<"1">>, <<>>>>>>

\* C16: canon(canon(x)) = canon(x) for every name x; two names that differ
\* in letter case and in leading, trailing or repeated spaces only name
\* the same record for Add, Set, Delete, Range, Type, Age and HasTaxon
\* and in the rows ReadTSV reads.
C16_CanonNames ==
    /\ Len(key) = 2 => key[2] = key[1]
    /\ LET x == pair[1]
           y == pair[2]
       IN  (~last.panic /\ SameName(x, y)) =>
            /\ canon(x) = canon(y)
            /\ HasTaxon(c, x) = HasTaxon(c, y)
            /\ Type(c, x) = Type(c, y)
            /\ Age(c, x) = Age(c, y)
            /\ Range(c, x) = Range(c, y)
            /\ Delete(c, x) = Delete(c, y)
            /\ \A age \in Ages, pt \in Coords :
                  Add(c, x, age, pt[1], pt[2]) = Add(c, y, age, pt[1], pt[2])
            /\ \A age \in Ages, rng \in TestFields :
                  Set(c, x, age, rng) = Set(c, y, age, rng)
            /\ LET r == ReadTSV(TwoRows(x, y), NilPix)
               IN  /\ r.err = ""
                   /\ canon(x) # <<>> =>
                         /\ DOMAIN r.c[1].taxa = {canon(x)}
                         /\ DOMAIN Range(r.c[1], y) = {0, 1}

\* C16 witness: two spellings that differ in case and in spaces; a Set
\* under the second has replaced the record an Add had made
C16_Witness ==
    /\ Len(key) = 2
    /\ key[1] # pair[1]
    /\ canon(pair[2]) # pair[2]
    /\ ToLower(pair[1]) # ToLower(pair[2])
    /\ Squeeze(pair[1]) # Squeeze(pair[2])
    /\ last.op = "Set"
    /\ last.name = pair[2]
    /\ last.had = Points
    /\ Type(c, pair[1]) = TypeRange

\* C17: Delete(name) removes the record of a taxon that is present: after
\* it HasTaxon(name) is false and Taxa does not list the name, the other
\* taxa are as they were; it changes nothing when the taxon is absent or
\* the name is empty after canon; an Add or a Set on the name after it
\* makes a record that holds what that call gives and nothing else.
C17_Delete ==
    [][/\ last'.op = "Delete" =>
            LET nm == canon(last'.name)
            IN  /\ ~HasTaxon(c', last'.name)
                /\ \A i \in DOMAIN Taxa(c') : Taxa(c')[i] # nm
                /\ DOMAIN c'.taxa = DOMAIN c.taxa \ {nm}
                /\ \A k \in DOMAIN c'.taxa : c'.taxa[k] = c.taxa[k]
                /\ (~HasTaxon(c, last'.name) \/ nm = <<>>) => c' = c
       /\ (/\ last.op = "Delete"
           /\ LastName # <<>>
           /\ canon(last'.name) = LastName
           /\ ~last'.panic) =>
            /\ last'.op = "Add" =>
                  /\ Type(c', LastName) = Points
                  /\ Range(c', LastName)
                       = [px \in {PixelID(c.pix, last'.lat, last'.lon)} |-> FOne]
            /\ last'.op = "Set" =>
                  /\ Type(c', LastName) = TypeRange
                  /\ Age(c', LastName) = last'.age
                  /\ DOMAIN Range(c', LastName) = DOMAIN last'.rng]_vars

\* C17 witness: Delete, under another spelling of its name, has removed a
\* Range taxon from a collection of two taxa
C17_Witness ==
    /\ last.op = "Delete"
    /\ last.had = TypeRange
    /\ last.name # LastName
    /\ ~HasTaxon(c, last.name)
    /\ Cardinality(DOMAIN c.taxa) = 1

\* every taxon of the collection has a pixel
NonEmptyCells(col) ==
    \A nm \in DOMAIN col.taxa : DOMAIN Range(col, nm) # {}

\* C18: in every collection reached from New by Add, Set and Delete, and
\* in every collection ReadTSV returns, every taxon has a pixel.
C18_NonEmptyCells ==
    /\ ~last.panic => NonEmptyCells(c)
    /\ ReadOK => NonEmptyCells(ret.c[1])

\* every density of every Points taxon of the collection is 1.0
PointsAreOne(col) ==
    \A nm \in DOMAIN col.taxa :
        Type(col, nm) = Points =>
            \A px \in DOMAIN Range(col, nm) : Range(col, nm)[px] = FOne

\* C19: in every collection reached by Add, Set and Delete, and in every
\* collection ReadTSV returns, every density of a Points taxon is 1.0.
C19_PointsInvariant ==
    /\ PointsAreOne(c)
    /\ ReadOK => PointsAreOne(ret.c[1])

\* C19 witness: ReadTSV has returned a Points taxon one row of which has
\* the density 0.25 in its column
C19_Witness ==
    /\ ReadOK
    /\ \E i \in DataLines :
        /\ input[i].density = S_quarter
        /\ Type(ret.c[1], input[i].taxon) = Points
        /\ Atoi(input[i].pixel).v \in DOMAIN Range(ret.c[1], input[i].taxon)

\* every density of every Range taxon of the collection is in (0, 1]
RangeInUnit(col) ==
    \A nm \in DOMAIN col.taxa :
        Type(col, nm) = TypeRange =>
            \A px \in DOMAIN Range(col, nm) :
                /\ FLess(FZero, Range(col, nm)[px])
                /\ ~FLess(FOne, Range(col, nm)[px])

\* C20: in every collection reached by Add, Set and Delete, whatever the
\* values given to Set, and in every collection ReadTSV returns, every
\* density of a Range taxon is greater than 0 and at most 1.0.
C20_RangeDensity ==
    /\ ~last.panic => RangeInUnit(c)
    /\ ReadOK => RangeInUnit(ret.c[1])

\* every pixel of every taxon of the collection is below the number of
\* pixels of its pixelation
CellsInBound(col) ==
    \A nm \in DOMAIN col.taxa :
        \A px \in DOMAIN col.taxa[nm].rng : px < PixLen(col.pix)

\* C21: in every collection reached from New by calls of Add, Set and
\* Delete none of which panicked, and in every collection ReadTSV returns,
\* every pixel stored for a taxon is smaller than the number of pixels of
\* the pixelation of the collection.
C21_CellsInBound ==
    /\ ~last.panic => CellsInBound(c)
    /\ ReadOK => CellsInBound(ret.c[1])

\* C21 witness: a Set that returned has stored the last pixel of the
\* pixelation
C21_Witness ==
    /\ Did("Set")
    /\ PixLen(c.pix) - 1 \in DOMAIN Range(c, last.name)

\* C21 witness of the reader: ReadTSV has returned a taxon that holds the
\* last pixel of the pixelation it made from the equator column
C21_WitnessRead ==
    /\ ReadOK
    /\ arg = NilPix
    /\ \E nm \in DOMAIN ret.c[1].taxa :
        PixLen(ret.c[1].pix) - 1 \in DOMAIN ret.c[1].taxa[nm].rng

\* C22: the age of a taxon that is in the collection is the same after
\* every call of Add, whatever the age and the name given to the call; the
\* age of a taxon that stays in the collection changes only in a call of
\* Set on its name.  (After a Delete the taxon is absent until an Add or a
\* Set makes a new record.)
C22_AgeStable ==
    [][\A nm \in DOMAIN c.taxa :
          /\ last'.op = "Add" =>
                /\ HasTaxon(c', nm)
                /\ Age(c', nm) = Age(c, nm)
          /\ (HasTaxon(c', nm) /\ Age(c', nm) # Age(c, nm)) =>
                /\ last'.op = "Set"
                /\ canon(last'.name) = nm]_vars

\* C22 witness: an Add whose age is not the age of the taxon it is called
\* on has kept the age of the taxon, beside a taxon of age 1
C22_Witness ==
    /\ last.op = "Add"
    /\ LastName # <<>>
    /\ last.had # NoType
    /\ last.age # Age(c, last.name)
    /\ \E nm \in DOMAIN c.taxa : nm # LastName /\ Age(c, nm) = 1

\* the type of the record the collection holds under a canonical name
TypeAt(col, nm) ==
    IF nm \in DOMAIN col.taxa THEN col.taxa[nm].tp ELSE NoType

PointsLines ==
    {i \in DataLines :
        RowType(input[i]) = Points /\ canon(input[i].taxon) # <<>>}

\* C24: ReadTSV does not parse the density column of a row of a Points
\* taxon: the row never fails on its density, whatever the column holds,
\* the density stored for its pixel is exactly 1.0, and it is 1.0 in the
\* collection ReadTSV returns.
C24_PointsDensity ==
    /\ Len(input) \in PointsLines =>
          /\ st.err # "density"
          /\ st.err = "" =>
                LET ln == input[Len(input)]
                    tax == st.taxa[canon(ln.taxon)]
                IN  /\ tax.tp = Points
                    /\ tax.rng[Atoi(ln.pixel).v] = FOne
    /\ ReadOK =>
          \A i \in PointsLines :
              /\ Type(ret.c[1], input[i].taxon) = Points
              /\ Range(ret.c[1], input[i].taxon)[Atoi(input[i].pixel).v] = FOne

\* C24 witness: ReadTSV has returned a collection from a file with Points
\* rows whose density columns hold a text that is no number, nothing, and
\* a value that is not 1
C24_Witness ==
    /\ ReadOK
    /\ \E i, j, k \in PointsLines :
        /\ input[i].density = S_x
        /\ input[j].density = <<>>
        /\ ParseFloat(input[k].density).ok
        /\ ParseFloat(input[k].density).v # FOne

\* C24 witness of the zero: ReadTSV has returned a Points taxon from a row
\* whose density column holds 0
C24_WitnessZero ==
    /\ ReadOK
    /\ \E i \in PointsLines :
        /\ input[i].density = <<"0">>
        /\ Range(ret.c[1], input[i].taxon)[Atoi(input[i].pixel).v] = FOne

\* the value below which the comment of Set says a value is ignored:
\* 0.0000005
Negligible == <<1, 2000000>>

\* C25: after a Set that returned, the range of the taxon holds no pixel
\* whose value in the range map given to Set, or whose stored density, is
\* smaller than 0.0000005; a pixel of value 0 is not stored.
C25_SetIgnoresSmall ==
    Did("Set") =>
        \A px \in DOMAIN Range(c, last.name) :
            /\ ~FLess(last.rng[px], Negligible)
            /\ ~FLess(Range(c, last.name)[px], Negligible)

\* C26: a Set that panics on a pixel outside the pixelation leaves the
\* collection as it was before the call: no taxon is created, and the
\* taxon of the call, when present, keeps its type, its age and its range.
C26_RejectedSetAtomic ==
    [][(last'.op = "Set" /\ last'.panic) =>
          /\ DOMAIN c'.taxa = DOMAIN c.taxa
          /\ Type(c', last'.name) = Type(c, last'.name)
          /\ Age(c', last'.name) = Age(c, last'.name)
          /\ Range(c', last'.name) = Range(c, last'.name)
          /\ c' = c]_vars

\* C27: a call of Add, Set or Delete with a name whose canonical form is N
\* leaves every taxon other than N in the collection with the type, the
\* age and the range it had, makes no taxon other than N, and leaves the
\* pixelation as it was; a call with a name that is empty after canon
\* leaves the whole collection as it was.
C27_Frame ==
    [][LET N == canon(last'.name)
       IN  /\ Pixelation(c') = Pixelation(c)
           /\ \A nm \in (DOMAIN c.taxa \cup DOMAIN c'.taxa) \ {N} :
                 /\ nm \in DOMAIN c.taxa
                 /\ nm \in DOMAIN c'.taxa
                 /\ c'.taxa[nm] = c.taxa[nm]
           /\ N = <<>> => c' = c]_vars

\* C27 witness: a Set has made a taxon in a collection that holds a
\* Points taxon and a Range taxon under other names
C27_Witness ==
    /\ Did("Set")
    /\ HasTaxon(c, last.name)
    /\ \E n1, n2 \in DOMAIN c.taxa \ {LastName} :
        /\ Type(c, n1) = Points
        /\ Type(c, n2) = TypeRange

\* C27 witness of the empty name: a call with a name of spaces on a
\* collection that holds a taxon
C27_WitnessEmpty ==
    /\ last.op \in {"Add", "Set", "Delete"}
    /\ last.name # <<>>
    /\ LastName = <<>>
    /\ DOMAIN c.taxa # {}

\* the largest density stored in a range map (0 for an empty map)
LargestStored(rng) ==
    LET vals == {rng[px] : px \in DOMAIN rng} \cup {FZero}
    IN  CHOOSE m \in vals : \A v \in vals : ~FLess(m, v)

\* C28: while ReadTSV reads its rows, and when its first pass ends, the
\* maximum it holds for a Range taxon is the largest density stored in the
\* range of the taxon, also when two rows give the same pixel of the taxon
\* and the later one has replaced the density of the earlier one.
C28_MaxTracking ==
    (pc \in {"rows", "done"} /\ st.err = "") =>
        \A nm \in DOMAIN st.taxa :
            st.taxa[nm].tp = TypeRange =>
                MaxGet(st.max, nm) = LargestStored(st.taxa[nm].rng)

\* every pixel of every taxon of the collection is 0 or more
CellsNonNegative(col) ==
    \A nm \in DOMAIN col.taxa :
        \A px \in DOMAIN col.taxa[nm].rng : px >= 0

\* a range map with a negative pixel: {-1: 1, 0: 1}
NegField == Field({<<-1, 1>>, <<0, 1>>})

\* ReadTSV returns no collection for a file with a row whose pixel column
\* holds a negative number, and the pixels it returns are 0 or more
C29_ReadRejects ==
    /\ ReadOK => CellsNonNegative(ret.c[1])
    /\ (pc = "done" /\ \E i \in DOMAIN input :
            /\ Atoi(input[i].pixel).ok
            /\ Atoi(input[i].pixel).v < 0
            /\ i <= st.rows
            /\ IsRecord(Layout(head, input[i]))
            /\ canon(input[i].taxon) # <<>>) => ReadFailed

\* Set on a range map with a negative pixel panics, whatever the
\* collection and the name of a taxon, and stores no negative pixel
C29_SetRejects ==
    ~last.panic =>
        \A name \in {nm \in Names : canon(nm) # <<>>} :
            \A out \in Set(c, name, 0, NegField) :
                /\ out.panic
                /\ CellsNonNegative(out.c)

\* C29: every pixel stored in a collection, by ReadTSV or by Set, is 0 or
\* more: a row whose pixel column is negative makes ReadTSV fail, and a
\* range map with a negative pixel makes Set panic.
C29_NonNegative ==
    /\ CellsNonNegative(c)
    /\ C29_ReadRejects
    /\ C29_SetRejects

\* C30: a collection ReadTSV returns without error holds a taxon, also
\* when every data row of the file has a taxon name that is empty after
\* canon.
C30_NeverEmpty ==
    ReadOK => DOMAIN ret.c[1].taxa # {}

====
